---- MODULE Spec2Model ----
\* Deals_Agent: the event-to-deal-suggestion pipeline.
\*   Spec     event store writers and the Event Processor (agent.py and
\*            event_processing_agent.py), one processor instance
\*   SpecPub  the Deal Publisher (deal_creator.py) and external vendor feedback
\*   SpecGen  the Suggestion Generator (generate_deal_from_ai, parse_ai_response)
EXTENDS Integers, Sequences, FiniteSets, TLC

\* ------------------------------------------------------------------ bounds
NumActivities == 2
MaxCycles == 3
NumSuggestions == 2
MaxPubCycles == 2
MaxInventory == 2
MaxLines == 2

\* ------------------------------------------------------------- variables
VARIABLES
    events,      \* the events table: a sequence of rows, the row's id is its index
    variant,     \* which Event Processor copy runs: "agent" or "event_processing_agent"
    ppc,         \* processor position: "sleep" (between cycles) or "loop" (inside the for)
    batch,       \* the ids returned by QUERY_UNPROCESSED in the current cycle
    idx,         \* position of the for loop in batch
    outcomes,    \* per batch position: "none" (not reached), "ok" (marked), "fail"
    last,        \* what the last loop iteration did
    lastFailed,  \* ids whose latest attempt failed
    cycle,       \* number of processing cycles started
    lastWrite,   \* what the last call of an events-table writer did
    sugg,        \* the deal_suggestions table: id -> [vendor_feedback, status]
    qpc,         \* publisher position: "idle" or "loop"
    cands,       \* rows returned by get_accepted_suggestions in the current cycle
    cidx,        \* position of the for loop in cands
    presults,    \* per cands position: "none", "ok" (create_deal True), "fail"
    lastPub,     \* what the last create_deal call did
    posts,       \* id -> number of deal-creation requests answered with success (200/201)
    lost,        \* id -> number of those whose status update failed
    pubFailed,   \* ids whose latest create_deal call returned False
    pcycle,      \* number of publish cycles started
    pubs,        \* concurrent publisher instances: instance -> its position (pc),
                 \* candidates, loop index, last create_deal call and cycle count
    gpc,         \* generator position: "idle", "ready" (request received) or "done"
    gkey,        \* whether GEMINI_API_KEY is configured
    inventory,   \* the inventory list supplied with the request
    airesp,      \* the model's response
    gpath,       \* the generating path the request takes
    gresult,     \* its outcome
    mpc,         \* matcher position: "idle", "ready" (inputs fetched) or "done"
    mmode,       \* matching mode: "nearest" or "exact"
    mvendor,     \* the vendor's coordinates
    mcands,      \* the candidate activities, in the order received
    mresult,     \* what the matching call returned or raised
    app,         \* the API server that runs: "main" (main.py) or "api" (the api package)
    dbValid,     \* DB_SETTINGS_VALID / are_db_settings_valid('default')
    dbUp,        \* whether the database accepts connections at the moment
    aiKey,       \* whether GEMINI_API_KEY is set
    spc,         \* server position: "starting" or "running"
    pool,        \* the db_pool global get_db_connection reads: "none" or "created"
    startupPool, \* the db_pool global of api/main.py, set by its startup handler
    reply,       \* the response to the last request, and what the request used
    writers,     \* concurrent event writers: instance -> its position (pc), the
                 \* function it runs, its activity_id and what it returned
    lagent,      \* the agent process whose scheduling loop runs
    lpc,         \* loop position: "due" (a cycle is to run), "sleep" (waiting for
                 \* the next interval), "backoff" (waiting after an error caught by
                 \* the loop) or "dead" (an exception left the loop)
    lhist,       \* per cycle started: the operation that failed in it, or "none"
    reqs,        \* requests to the api package that depend on get_db_connection:
                 \* request -> its position in the dependency
    created      \* number of connection pools the process has created

evars == <<events, variant, ppc, batch, idx, outcomes, last, lastFailed, cycle, lastWrite>>
pvars == <<sugg, qpc, cands, cidx, presults, lastPub, posts, lost, pubFailed, pcycle, pubs>>
gvars == <<gpc, gkey, inventory, airesp, gpath, gresult>>
mvars == <<mpc, mmode, mvendor, mcands, mresult>>
svars == <<app, dbValid, dbUp, aiKey, spc, pool, startupPool, reply>>
wvars == <<writers>>
lvars == <<lagent, lpc, lhist>>
rvars == <<reqs, created>>
cvars == <<wvars, lvars, rvars>>
vars == <<evars, pvars, gvars, mvars, svars, cvars>>

None == "None"

Range(s) == {s[i] : i \in DOMAIN s}

\* The ascending sequence of the elements of a finite set of integers.
RECURSIVE SortedSeq(_)
SortedSeq(S) ==
    IF S = {} THEN <<>>
    ELSE LET m == CHOOSE x \in S : \A y \in S : x <= y
         IN <<m>> \o SortedSeq(S \ {m})

\* =====================================================================
\* Event store and Event Processor
\* =====================================================================

Activities == 1..NumActivities

\* A row as the writers insert it: the INSERT names no processed_for_suggestion,
\* the flag starts false.
NewEvent(a) == [activity_id |-> a, processed |-> FALSE]

\* SELECT COUNT(*) FROM events WHERE activity_id = %s  ... > 0
EventExistsNever(tbl, a) == FALSE
EventExists(tbl, a) == \E i \in DOMAIN tbl : tbl[i].activity_id = a

\* The branch a writer call leaves through: no connection, the activity_id is
\* already stored, a failure before the commit, or the row is inserted.
WriterBranch(tbl, a, conn, later) ==
    IF conn # "ok" THEN "no_connection"
    ELSE IF EventExists(tbl, a) THEN "exists"
    ELSE IF later # "ok" THEN "failed"
    ELSE "created"

\* EventSourcingAgent.store_event: connection, dedup check, field and coordinate
\* parsing, insert + commit; every failure leaves the table as it was.
StoreEventTableNoRollback(tbl, a, conn, fields, coords, ins) ==
    IF conn # "ok" THEN tbl
    ELSE IF EventExists(tbl, a) THEN tbl
    ELSE IF fields # "ok" \/ coords # "ok" THEN tbl
    ELSE Append(tbl, NewEvent(a))
StoreEventTable(tbl, a, conn, fields, coords, ins) ==
    IF conn # "ok" THEN tbl
    ELSE IF EventExists(tbl, a) THEN tbl
    ELSE IF fields # "ok" \/ coords # "ok" \/ ins # "ok" THEN tbl
    ELSE Append(tbl, NewEvent(a))

\* insert_event_into_hackathon_db: connection, dedup check, insert + commit.
InsertEventTableNoCheck(tbl, a, conn, ins) ==
    IF conn # "ok" \/ ins # "ok" THEN tbl ELSE Append(tbl, NewEvent(a))
InsertEventTable(tbl, a, conn, ins) ==
    IF conn # "ok" THEN tbl
    ELSE IF EventExists(tbl, a) THEN tbl
    ELSE IF ins # "ok" THEN tbl
    ELSE Append(tbl, NewEvent(a))

\* The value store_event returns: True when the row exists already and when it
\* was inserted, False otherwise.
StoreEventReturn(branch) == branch \in {"exists", "created"}

\* The value insert_event_into_hackathon_db returns: True only after an insert.
InsertEventReturn(branch) == branch = "created"

StoreEvent ==
    \E a \in Activities, conn \in {"ok", "none"}, fields \in {"ok", "missing"},
       coords \in {"ok", "unparsable"}, ins \in {"ok", "raise"} :
        LET later == IF fields = "ok" /\ coords = "ok" /\ ins = "ok" THEN "ok" ELSE "raise"
            branch == WriterBranch(events, a, conn, later)
        IN /\ events' = StoreEventTable(events, a, conn, fields, coords, ins)
           /\ lastWrite' = [writer |-> "store_event", activity_id |-> a,
                             existed |-> EventExists(events, a),
                             branch |-> branch, ret |-> StoreEventReturn(branch)]
           /\ UNCHANGED <<variant, ppc, batch, idx, outcomes, last, lastFailed, cycle>>
           /\ UNCHANGED <<pvars, gvars, mvars, svars, cvars>>

InsertEvent ==
    \E a \in Activities, conn \in {"ok", "none"}, ins \in {"ok", "raise"} :
        LET branch == WriterBranch(events, a, conn, ins)
        IN /\ events' = InsertEventTable(events, a, conn, ins)
           /\ lastWrite' = [writer |-> "insert_event_into_hackathon_db", activity_id |-> a,
                             existed |-> EventExists(events, a),
                             branch |-> branch, ret |-> InsertEventReturn(branch)]
           /\ UNCHANGED <<variant, ppc, batch, idx, outcomes, last, lastFailed, cycle>>
           /\ UNCHANGED <<pvars, gvars, mvars, svars, cvars>>

\* SELECT * FROM events WHERE processed_for_suggestion = FALSE
QueryUnprocessedAll(tbl) == SortedSeq(DOMAIN tbl)
QueryUnprocessedNewest(tbl) ==
    LET S == {i \in DOMAIN tbl : tbl[i].processed = FALSE}
    IN IF S = {} THEN <<>> ELSE <<CHOOSE x \in S : \A y \in S : y <= x>>
QueryUnprocessed(tbl) == SortedSeq({i \in DOMAIN tbl : tbl[i].processed = FALSE})

\* UPDATE events SET processed_for_suggestion = TRUE WHERE id = $1
UpdateProcessed(tbl, id) == [tbl EXCEPT ![id].processed = TRUE]

\* call_deal_suggestion_api: the body on HTTP 200, None on any other status and
\* on an exception of the HTTP client.
ApiAnswers ==
    { [status |-> 200, body |-> "suggestions"],   \* a non-empty JSON body
      [status |-> 200, body |-> "empty"],         \* [] (no suggestion)
      [status |-> 500, body |-> "error"],
      [status |-> -1,  body |-> "exception"] }    \* the client raised

CallDealSuggestionApiAny(ans) == IF ans.status > 0 THEN ans.body ELSE None
CallDealSuggestionApi(ans) == IF ans.status = 200 THEN ans.body ELSE None

\* `if api_response:` : None and an empty list are falsy.
ApiResponseTruthy(resp) == resp \notin {None, "empty"}

\* The per-event `except Exception` logs and lets the for loop go on with the
\* next record; k is the position of the failed record, n the batch length.
OnEventErrorAbort(k, n) == n + 1
OnEventError(k, n) == k + 1

\* The start of process_events: connect, fetch the unprocessed rows, return when
\* there are none. A failed connect or fetch is caught by the outer handler.
ProcessEventsStart ==
    /\ ppc = "sleep"
    /\ cycle < MaxCycles
    /\ cycle' = cycle + 1
    /\ \E db \in {"ok", "raise"} :
         LET rows == IF db = "ok" THEN QueryUnprocessed(events) ELSE <<>>
         IN /\ batch' = rows
            /\ outcomes' = [k \in DOMAIN rows |-> "none"]
            /\ idx' = 1
            /\ ppc' = IF rows = <<>> THEN "sleep" ELSE "loop"
            /\ last' = [id |-> 0, api |-> IF db = "ok" THEN "queried" ELSE "query_failed",
                        marked |-> FALSE, upd |-> "none"]
    /\ UNCHANGED <<events, variant, lastFailed, lastWrite>>
    /\ UNCHANGED <<pvars, gvars, mvars, svars, cvars>>

\* One iteration of the for loop, with the bookkeeping both copies share.
LoopStep(id, ok, api, upd) ==
    /\ events' = IF ok THEN UpdateProcessed(events, id) ELSE events
    /\ outcomes' = [outcomes EXCEPT ![idx] = IF ok THEN "ok" ELSE "fail"]
    /\ lastFailed' = IF ok THEN lastFailed \ {id} ELSE lastFailed \cup {id}
    /\ last' = [id |-> id, api |-> api, marked |-> ok, upd |-> upd]
    /\ idx' = IF ok THEN idx + 1 ELSE OnEventError(idx, Len(batch))
    /\ ppc' = IF idx' > Len(batch) THEN "sleep" ELSE "loop"
    /\ UNCHANGED <<variant, batch, cycle, lastWrite>>
    /\ UNCHANGED <<pvars, gvars, mvars, svars, cvars>>

\* What can happen to one record in event_processing_agent.py: from_db_record,
\* the inventory fetch or the payload raises (nothing after it runs), or the
\* API is called and answers, and the update then succeeds or raises.
EventOutcomes ==
    {[failed |-> f, ans |-> [status |-> 0, body |-> "not_called"], upd |-> "none"] :
        f \in {"from_db_record", "inventory", "payload"}}
    \cup {[failed |-> "none", ans |-> a, upd |-> u] :
             a \in ApiAnswers, u \in {"ok", "raise"}}

\* event_processing_agent.py: from_db_record, inventory fetch, payload, API
\* call, and the update when the response is truthy.
ProcessEvent ==
    /\ variant = "event_processing_agent"
    /\ ppc = "loop"
    /\ idx <= Len(batch)
    /\ \E o \in EventOutcomes :
         LET called == o.failed = "none"
             resp == IF called THEN CallDealSuggestionApi(o.ans) ELSE None
             issued == called /\ ApiResponseTruthy(resp)
             ok == issued /\ o.upd = "ok"
         IN LoopStep(batch[idx], ok, o.ans.body, IF issued THEN o.upd ELSE "none")

\* agent.py: from_db_record and the update, nothing in between.
AgentProcessEvent ==
    /\ variant = "agent"
    /\ ppc = "loop"
    /\ idx <= Len(batch)
    /\ \E rec \in {"ok", "raise"}, upd \in {"ok", "raise"} :
         LoopStep(batch[idx], rec = "ok" /\ upd = "ok", "not_called",
                  IF rec = "ok" THEN upd ELSE "none")

NoWrite ==
    [writer |-> "none", activity_id |-> 0, existed |-> FALSE, branch |-> "none",
     ret |-> FALSE]

InitE ==
    /\ events = <<>>
    /\ variant \in {"agent", "event_processing_agent"}
    /\ ppc = "sleep"
    /\ batch = <<>>
    /\ idx = 1
    /\ outcomes = <<>>
    /\ last = [id |-> 0, api |-> "none", marked |-> FALSE, upd |-> "none"]
    /\ lastFailed = {}
    /\ cycle = 0
    /\ lastWrite = NoWrite

InitP0 ==
    /\ sugg = <<>>
    /\ qpc = "idle"
    /\ cands = <<>>
    /\ cidx = 1
    /\ presults = <<>>
    /\ lastPub = [id |-> 0, sent |-> FALSE, http |-> 0, update |-> "none"]
    /\ posts = <<>>
    /\ lost = <<>>
    /\ pubFailed = {}
    /\ pcycle = 0
    /\ pubs = <<>>

InitG0 ==
    /\ gpc = "idle"
    /\ gkey = TRUE
    /\ inventory = <<>>
    /\ airesp = <<>>
    /\ gpath = None
    /\ gresult = [kind |-> "none", detail |-> "", suggestions |-> <<>>]

InitM0 ==
    /\ mpc = "idle"
    /\ mmode = None
    /\ mvendor = [latitude |-> [t |-> "num", v |-> 0], longitude |-> [t |-> "num", v |-> 0]]
    /\ mcands = <<>>
    /\ mresult = [err |-> "", found |-> <<>>]

NoReply == [ep |-> None, status |-> 0, by |-> None, used |-> {}, missing |-> {}]

InitS0 ==
    /\ app = "main"
    /\ dbValid = TRUE
    /\ dbUp = TRUE
    /\ aiKey = TRUE
    /\ spc = "starting"
    /\ pool = "none"
    /\ startupPool = "none"
    /\ reply = NoReply

InitW0 == writers = <<>>

InitL0 ==
    /\ lagent = None
    /\ lpc = "due"
    /\ lhist = <<>>

InitR0 ==
    /\ reqs = <<>>
    /\ created = 0

InitC0 == InitW0 /\ InitL0 /\ InitR0

Init == InitE /\ InitP0 /\ InitG0 /\ InitM0 /\ InitS0 /\ InitC0

Next ==
    \/ StoreEvent
    \/ InsertEvent
    \/ ProcessEventsStart
    \/ ProcessEvent
    \/ AgentProcessEvent

Spec == Init /\ [][Next]_vars

\* ---------------------------------------------------------------------
\* Properties of the Event Processor
\* ---------------------------------------------------------------------

NonErrorAnswers == {"suggestions", "empty"}

\* An event whose flag goes from false to true in this step.
NewlyMarked(i) ==
    /\ i \in DOMAIN events
    /\ ~events[i].processed
    /\ events'[i].processed

\* C1 (as stated): in every Event Processor copy, agent.py included, an event is
\* marked processed only after a non-error answer of the suggestion API for
\* that event in the same loop iteration.
C1_MarkedOnlyAfterSuccess_AllAgents ==
    [][\A i \in DOMAIN events' :
          NewlyMarked(i) => last'.id = i /\ last'.api \in NonErrorAnswers]_vars

\* C1 (amended): in event_processing_agent.py an event is marked processed only
\* after a non-error (HTTP 200) answer of the suggestion API for that event in
\* the same loop iteration; agent.py marks every selected event without calling
\* the generator.
C1_MarkedOnlyAfterSuccess ==
    [][\A i \in DOMAIN events' :
          NewlyMarked(i) =>
             IF variant = "event_processing_agent"
             THEN last'.id = i /\ last'.api \in NonErrorAnswers
             ELSE last'.id = i /\ last'.api = "not_called"]_vars

C1_Witness ==
    /\ variant = "event_processing_agent"
    /\ last.marked
    /\ last.api = "suggestions"
    /\ last.id \in DOMAIN events
    /\ events[last.id].processed

\* C2: when a cycle ends every event of its batch has been attempted, and each
\* event whose handling failed is still unprocessed.
C2_FailureIsolated ==
    (ppc = "sleep" /\ batch # <<>>) =>
        \A k \in DOMAIN batch :
            /\ outcomes[k] # "none"
            /\ outcomes[k] = "fail" => ~events[batch[k]].processed

C2_Witness ==
    /\ ppc = "sleep"
    /\ Len(batch) >= 2
    /\ outcomes[1] = "fail"
    /\ outcomes[2] = "ok"
    /\ ~events[batch[1]].processed
    /\ events[batch[2]].processed

\* C3: an event whose latest attempt failed is still in the table and
\* unprocessed, and every later cycle whose query runs selects it again.
C3_FailedRetriedEveryCycle ==
    /\ [](\A i \in lastFailed : i \in DOMAIN events /\ ~events[i].processed)
    /\ [][(cycle' = cycle + 1 /\ last'.api = "queried") =>
             lastFailed \subseteq Range(batch')]_vars

C3_Witness ==
    /\ cycle >= 3
    /\ ppc = "loop"
    /\ idx = 2
    /\ Len(batch) >= 2
    /\ outcomes[1] = "fail"
    /\ lastFailed = Range(batch)

\* C4: processed_for_suggestion never goes back to false, no row is removed, and
\* a cycle's query never selects a processed event.
C4_ProcessedMonotonic ==
    [][/\ \A i \in DOMAIN events :
             /\ i \in DOMAIN events'
             /\ events[i].processed => events'[i].processed
       /\ cycle' = cycle + 1 =>
             \A k \in DOMAIN batch' : ~events[batch'[k]].processed]_vars

C4_Witness ==
    /\ last.api = "queried"
    /\ batch # <<>>
    /\ \E i \in DOMAIN events : events[i].processed /\ i \notin Range(batch)

\* The step is one iteration of the loop of event_processing_agent.py.
EpaLoopStep == variant = "event_processing_agent" /\ ppc = "loop" /\ outcomes' # outcomes

\* C18 (as stated): when the suggestion API answers an event's request with
\* HTTP 200, whatever the body, an empty list included, and the update of the
\* flag does not fail, the event is marked processed in that iteration.
C18_MarkedOnAny200 ==
    [][(EpaLoopStep /\ last'.api \in NonErrorAnswers /\ last'.upd # "raise") =>
          /\ last'.marked
          /\ events'[last'.id].processed]_vars

\* C29: when an iteration of event_processing_agent.py marks an event processed
\* after a successful suggestion response, the deal_suggestions table holds a
\* row stored for it (by that iteration or before it).
C29_SuggestionStoredWhenMarked ==
    [][(EpaLoopStep /\ last'.marked) => DOMAIN sugg' # {}]_vars

\* ---------------------------------------------------------------------
\* Properties of the event store writers
\* ---------------------------------------------------------------------

\* C13: the events table never holds two rows with the same activity_id.
C13_OneEventPerActivity ==
    \A i, j \in DOMAIN events : events[i].activity_id = events[j].activity_id => i = j

C13_Witness ==
    /\ Len(events) = NumActivities
    /\ lastWrite.existed
    /\ lastWrite.branch = "exists"
    /\ \A a \in Activities : Cardinality({i \in DOMAIN events : events[i].activity_id = a}) = 1

\* The step is a writer call that connects for an activity_id already stored.
SecondCall ==
    /\ lastWrite' # lastWrite
    /\ lastWrite'.existed
    /\ lastWrite'.branch # "no_connection"

\* The value the writer returns on each of its other branches.
ReturnOf(writer, branch) ==
    IF writer = "store_event" THEN StoreEventReturn(branch) ELSE InsertEventReturn(branch)

\* C14 (as stated): a writer call for an activity_id already stored leaves the
\* table as it was and reports skipped, a result that differs from the one it
\* reports for created and from the one it reports for failed.
C14_SecondCallReportsSkipped ==
    [][SecondCall =>
          /\ events' = events
          /\ lastWrite'.branch = "exists"
          /\ lastWrite'.ret # ReturnOf(lastWrite'.writer, "created")
          /\ lastWrite'.ret # ReturnOf(lastWrite'.writer, "failed")]_vars

\* C14 (amended): a writer call for an activity_id already stored leaves the
\* table as it was, one row with that activity_id; when it connects it takes the
\* already-exists branch, for which store_event returns True, as for an insert,
\* and insert_event_into_hackathon_db returns False, as for a failure. A row is
\* added only by a call for an activity_id not yet stored.
C14_SecondCallLeavesTable ==
    /\ [][(lastWrite' # lastWrite /\ lastWrite'.existed) =>
             /\ events' = events
             /\ Cardinality({i \in DOMAIN events' :
                               events'[i].activity_id = lastWrite'.activity_id}) = 1]_vars
    /\ [][SecondCall =>
             /\ lastWrite'.branch = "exists"
             /\ lastWrite'.ret = (lastWrite'.writer = "store_event")
             /\ lastWrite'.ret = IF lastWrite'.writer = "store_event"
                                 THEN ReturnOf(lastWrite'.writer, "created")
                                 ELSE ReturnOf(lastWrite'.writer, "failed")]_vars
    /\ [][Len(events') # Len(events) =>
             /\ lastWrite'.branch = "created"
             /\ ~lastWrite'.existed
             /\ events' = Append(events, NewEvent(lastWrite'.activity_id))]_vars

C14_Witness ==
    /\ lastWrite.writer = "insert_event_into_hackathon_db"
    /\ lastWrite.existed
    /\ lastWrite.branch = "exists"
    /\ ~lastWrite.ret
    /\ Cardinality({i \in DOMAIN events : events[i].activity_id = lastWrite.activity_id}) = 1
    /\ Len(events) = 1

\* A writer call that could not complete: it had no connection, or it passed
\* the existence check and then a field was missing, a coordinate could not be
\* parsed, or the INSERT or the commit raised.
WriterCallFailed ==
    /\ lastWrite' # lastWrite
    /\ lastWrite'.branch \in {"no_connection", "failed"}

\* C22: a writer call that cannot complete returns False and leaves the events
\* table exactly as it was before the call.
C22_FailedCallLeavesTable ==
    [][WriterCallFailed => (events' = events /\ lastWrite'.ret = FALSE)]_vars

C22_Witness ==
    /\ lastWrite.writer = "store_event"
    /\ lastWrite.branch = "failed"
    /\ ~lastWrite.existed
    /\ ~lastWrite.ret
    /\ Len(events) = 1
    /\ events[1].activity_id # lastWrite.activity_id

\* ---------------------------------------------------------------------
\* Two event writers interleaved on one events table
\* ---------------------------------------------------------------------
\* Each writer instance runs store_event or insert_event_into_hackathon_db on
\* its own connection. The existence check (SELECT) and the INSERT + commit
\* are separate statements; the other instance may run between them.

Writers == {1, 2}

MaxWriterCalls == 2

WriterFunctions == {"store_event", "insert_event_into_hackathon_db"}

IdleWriter ==
    [pc |-> "idle", fn |-> "none", activity_id |-> 0, branch |-> "none",
     ret |-> FALSE, calls |-> 0]

WriterReturn(fn, branch) ==
    IF fn = "store_event" THEN StoreEventReturn(branch) ELSE InsertEventReturn(branch)

\* The call up to and including the existence check: connect, SELECT, and the
\* early returns on no connection and on an existing row.
WriterCheck(w) ==
    /\ writers[w].pc = "idle"
    /\ writers[w].calls < MaxWriterCalls
    /\ \E fn \in WriterFunctions, a \in Activities, conn \in {"ok", "none"} :
          LET branch == IF conn # "ok" THEN "no_connection"
                        ELSE IF EventExists(events, a) THEN "exists"
                        ELSE "checked"
          IN writers' = [writers EXCEPT ![w] =
                 [pc |-> IF branch = "checked" THEN "checked" ELSE "idle",
                  fn |-> fn, activity_id |-> a, branch |-> branch,
                  ret |-> WriterReturn(fn, branch),
                  calls |-> writers[w].calls + 1]]
    /\ UNCHANGED evars
    /\ UNCHANGED <<pvars, gvars, mvars, svars, lvars, rvars>>

\* The rest of the call: building the row, INSERT and commit, or an exception
\* on the way (missing field, unparsable coordinate, INSERT or commit raising),
\* which leaves the table as it was.
WriterInsert(w) ==
    /\ writers[w].pc = "checked"
    /\ \E later \in {"ok", "raise"} :
          LET branch == IF later = "ok" THEN "created" ELSE "failed"
          IN /\ events' = IF later = "ok"
                          THEN Append(events, NewEvent(writers[w].activity_id))
                          ELSE events
             /\ writers' = [writers EXCEPT ![w].pc = "idle", ![w].branch = branch,
                                           ![w].ret = WriterReturn(writers[w].fn, branch)]
    /\ UNCHANGED <<variant, ppc, batch, idx, outcomes, last, lastFailed, cycle, lastWrite>>
    /\ UNCHANGED <<pvars, gvars, mvars, svars, lvars, rvars>>

InitWriters ==
    /\ InitE /\ InitP0 /\ InitG0 /\ InitM0 /\ InitS0 /\ InitL0 /\ InitR0
    /\ writers = [w \in Writers |-> IdleWriter]

NextWriters ==
    \/ \E w \in Writers : WriterCheck(w)
    \/ \E w \in Writers : WriterInsert(w)

SpecWriters == InitWriters /\ [][NextWriters]_vars

\* C21: with two writers interleaved (check and insert as separate steps), the
\* table holds at most one event per activity_id.
C21_OneEventPerActivityInterleaved ==
    \A a \in Activities :
        Cardinality({i \in DOMAIN events : events[i].activity_id = a}) <= 1

\* =====================================================================
\* Deal Publisher
\* =====================================================================

SuggestionIds == 1..NumSuggestions

\* Fields a new DealSuggestion starts with.
NewSuggestion == [vendor_feedback |-> "pending", status |-> "generated"]

Feedbacks == {"pending", "accepted", "rejected"}

\* get_accepted_suggestions: SELECT * FROM deal_suggestions
\*   WHERE vendor_feedback = 'accepted' AND status != 'posted'
\* each returned row carries the column values read by the query.
RowsOf(tbl, S) ==
    LET ids == SortedSeq(S)
    IN [k \in DOMAIN ids |->
           [id |-> ids[k], vendor_feedback |-> tbl[ids[k]].vendor_feedback,
            status |-> tbl[ids[k]].status]]

GetAcceptedSuggestionsAnyStatus(tbl) ==
    RowsOf(tbl, {s \in DOMAIN tbl : tbl[s].vendor_feedback = "accepted"})
GetAcceptedSuggestions(tbl) ==
    RowsOf(tbl, {s \in DOMAIN tbl :
                    tbl[s].vendor_feedback = "accepted" /\ tbl[s].status # "posted"})

\* update_suggestion_status: UPDATE deal_suggestions SET status = 'posted'
\* WHERE id = :id, committed; an exception is logged and swallowed.
UpdateSuggestionStatusNoCommit(tbl, id, db) == tbl
UpdateSuggestionStatusAlways(tbl, id, db) == [tbl EXCEPT ![id].status = "posted"]
UpdateSuggestionStatus(tbl, id, db) ==
    IF db = "ok" THEN [tbl EXCEPT ![id].status = "posted"] ELSE tbl

\* Answers of POST /create-deal/hackathon/.
HttpCodes == {200, 201, 204, 400, 500}

\* `response.status_code in [200, 201]`
IsSuccessStatus2xx(code) == code \in 200..299
IsSuccessStatus(code) == code \in {200, 201}

\* create_deal's `except Exception` returns False and process_suggestions goes
\* on with the next suggestion; k is the position, n the number of candidates.
OnCreateDealErrorAbort(k, n) == n + 1
OnCreateDealError(k, n) == k + 1

\* External change of vendor_feedback (the vendor approval UI).
VendorFeedback ==
    \E s \in DOMAIN sugg, f \in Feedbacks :
        /\ f # sugg[s].vendor_feedback
        /\ sugg' = [sugg EXCEPT ![s].vendor_feedback = f]
        /\ UNCHANGED <<qpc, cands, cidx, presults, lastPub, posts, lost, pubFailed, pcycle>>
        /\ UNCHANGED pubs
        /\ UNCHANGED <<evars, gvars, mvars, svars, cvars>>

\* The start of process_suggestions: the candidate query; an exception of the
\* query is logged and gives no candidates.
ProcessSuggestionsStart ==
    /\ qpc = "idle"
    /\ pcycle < MaxPubCycles
    /\ pcycle' = pcycle + 1
    /\ \E db \in {"ok", "raise"} :
         LET rows == IF db = "ok" THEN GetAcceptedSuggestions(sugg) ELSE <<>>
         IN /\ cands' = rows
            /\ presults' = [k \in DOMAIN rows |-> "none"]
            /\ cidx' = 1
            /\ qpc' = IF rows = <<>> THEN "idle" ELSE "loop"
            /\ lastPub' = [id |-> 0, sent |-> FALSE, http |-> 0,
                           update |-> IF db = "ok" THEN "queried" ELSE "query_failed"]
    /\ UNCHANGED <<sugg, posts, lost, pubFailed>>
    /\ UNCHANGED pubs
    /\ UNCHANGED <<evars, gvars, mvars, svars, cvars>>

\* What can happen in one create_deal call: building the payload raises, the
\* POST raises, or the marketplace answers; db is the fate of the status update
\* when one is made.
CreateDealOutcomes ==
    {[pay |-> "raise", net |-> "none", code |-> 0, db |-> "none"],
     [pay |-> "ok", net |-> "raise", code |-> 0, db |-> "none"]}
    \cup {[pay |-> "ok", net |-> "ok", code |-> c, db |-> d] :
             c \in HttpCodes, d \in {"ok", "raise"}}

\* One iteration of process_suggestions' loop: create_deal(suggestion), with
\* the status update it makes on success.
CreateDeal ==
    /\ qpc = "loop"
    /\ cidx <= Len(cands)
    /\ \E o \in CreateDealOutcomes :
         LET id == cands[cidx].id
             sent == o.pay = "ok"
             answered == sent /\ o.net = "ok"
             success == answered /\ IsSuccessStatus(o.code)
         IN /\ sugg' = IF success THEN UpdateSuggestionStatus(sugg, id, o.db) ELSE sugg
            /\ presults' = [presults EXCEPT ![cidx] = IF success THEN "ok" ELSE "fail"]
            /\ pubFailed' = IF success THEN pubFailed \ {id} ELSE pubFailed \cup {id}
            /\ posts' = [posts EXCEPT ![id] = @ + (IF success THEN 1 ELSE 0)]
            /\ lost' = [lost EXCEPT ![id] =
                          @ + (IF success /\ o.db # "ok" THEN 1 ELSE 0)]
            /\ lastPub' = [id |-> id, sent |-> sent,
                           http |-> IF answered THEN o.code ELSE 0,
                           update |-> IF ~success THEN "none"
                                      ELSE IF o.db = "ok" THEN "committed" ELSE "failed"]
            /\ cidx' = IF success THEN cidx + 1 ELSE OnCreateDealError(cidx, Len(cands))
            /\ qpc' = IF cidx' > Len(cands) THEN "idle" ELSE "loop"
    /\ UNCHANGED <<cands, pcycle>>
    /\ UNCHANGED pubs
    /\ UNCHANGED <<evars, gvars, mvars, svars, cvars>>

InitE0 ==
    /\ events = <<>>
    /\ variant = "event_processing_agent"
    /\ ppc = "sleep"
    /\ batch = <<>>
    /\ idx = 1
    /\ outcomes = <<>>
    /\ last = [id |-> 0, api |-> "none", marked |-> FALSE, upd |-> "none"]
    /\ lastFailed = {}
    /\ cycle = 0
    /\ lastWrite = NoWrite

InitP ==
    /\ sugg = [s \in SuggestionIds |-> NewSuggestion]
    /\ qpc = "idle"
    /\ cands = <<>>
    /\ cidx = 1
    /\ presults = <<>>
    /\ lastPub = [id |-> 0, sent |-> FALSE, http |-> 0, update |-> "none"]
    /\ posts = [s \in SuggestionIds |-> 0]
    /\ lost = [s \in SuggestionIds |-> 0]
    /\ pubFailed = {}
    /\ pcycle = 0
    /\ pubs = <<>>

InitPub == InitE0 /\ InitP /\ InitG0 /\ InitM0 /\ InitS0 /\ InitC0

NextPub ==
    \/ VendorFeedback
    \/ ProcessSuggestionsStart
    \/ CreateDeal

SpecPub == InitPub /\ [][NextPub]_vars

\* ---------------------------------------------------------------------
\* The publisher polling without end
\* ---------------------------------------------------------------------
\* The same cycle and loop iteration with no bound on the number of cycles; the
\* history records (pcycle, posts, lost, presults, pubFailed) are not advanced,
\* so that the state space stays finite and small.

PollLive ==
    /\ qpc = "idle"
    /\ \E db \in {"ok", "raise"} :
         LET rows == IF db = "ok" THEN GetAcceptedSuggestions(sugg) ELSE <<>>
         IN /\ cands' = rows
            /\ cidx' = 1
            /\ qpc' = IF rows = <<>> THEN "idle" ELSE "loop"
            /\ lastPub' = [id |-> 0, sent |-> FALSE, http |-> 0,
                           update |-> IF db = "ok" THEN "queried" ELSE "query_failed"]
    /\ UNCHANGED <<sugg, posts, lost, presults, pubFailed, pcycle>>
    /\ UNCHANGED pubs
    /\ UNCHANGED <<evars, gvars, mvars, svars, cvars>>

CreateDealLive ==
    /\ qpc = "loop"
    /\ cidx <= Len(cands)
    /\ \E o \in CreateDealOutcomes :
         LET id == cands[cidx].id
             sent == o.pay = "ok"
             answered == sent /\ o.net = "ok"
             success == answered /\ IsSuccessStatus(o.code)
         IN /\ sugg' = IF success THEN UpdateSuggestionStatus(sugg, id, o.db) ELSE sugg
            /\ lastPub' = [id |-> id, sent |-> sent,
                           http |-> IF answered THEN o.code ELSE 0,
                           update |-> IF ~success THEN "none"
                                      ELSE IF o.db = "ok" THEN "committed" ELSE "failed"]
            /\ cidx' = IF success THEN cidx + 1 ELSE OnCreateDealError(cidx, Len(cands))
            /\ qpc' = IF cidx' > Len(cands) THEN "idle" ELSE "loop"
    /\ UNCHANGED <<cands, pcycle, posts, lost, presults, pubFailed>>
    /\ UNCHANGED pubs
    /\ UNCHANGED <<evars, gvars, mvars, svars, cvars>>

\* The candidate query of a cycle succeeds.
QueryOk == PollLive /\ lastPub'.update = "queried"

\* The marketplace answers the request for suggestion s with success and the
\* status update commits.
PostCommitted(s) ==
    /\ CreateDealLive
    /\ cands[cidx].id = s
    /\ lastPub'.update = "committed"

NextPubLive ==
    \/ VendorFeedback
    \/ PollLive
    \/ CreateDealLive

\* The publisher keeps polling (weak fairness of its two steps); the database
\* and the marketplace do not fail forever: a query that is tried again and
\* again eventually succeeds, and so does a request with its status update.
SpecPubLive ==
    /\ InitPub
    /\ [][NextPubLive]_vars
    /\ WF_vars(PollLive)
    /\ WF_vars(CreateDealLive)
    /\ SF_vars(QueryOk)
    /\ \A s \in SuggestionIds : SF_vars(PostCommitted(s))

\* Two instances of deal_creator.py polling the same table, each with its own
\* connection and its own loop.
Publishers == {1, 2}

MaxRaceCycles == 1

IdlePublisher ==
    [pc |-> "idle", cands |-> <<>>, cidx |-> 1,
     last |-> [id |-> 0, sent |-> FALSE, update |-> "none"], cycle |-> 0]

\* process_suggestions of instance p up to the loop.
RaceQuery(p) ==
    /\ pubs[p].pc = "idle"
    /\ pubs[p].cycle < MaxRaceCycles
    /\ \E db \in {"ok", "raise"} :
         LET rows == IF db = "ok" THEN GetAcceptedSuggestions(sugg) ELSE <<>>
         IN pubs' = [pubs EXCEPT ![p] =
                       [pc |-> IF rows = <<>> THEN "idle" ELSE "loop",
                        cands |-> rows, cidx |-> 1,
                        last |-> [id |-> 0, sent |-> FALSE,
                                  update |-> IF db = "ok" THEN "queried" ELSE "query_failed"],
                        cycle |-> pubs[p].cycle + 1]]
    /\ UNCHANGED <<sugg, qpc, cands, cidx, presults, lastPub, posts, lost, pubFailed, pcycle>>
    /\ UNCHANGED <<evars, gvars, mvars, svars, cvars>>

\* create_deal of instance p for its next candidate.
RaceCreateDeal(p) ==
    /\ pubs[p].pc = "loop"
    /\ pubs[p].cidx <= Len(pubs[p].cands)
    /\ \E o \in CreateDealOutcomes :
         LET id == pubs[p].cands[pubs[p].cidx].id
             sent == o.pay = "ok"
             answered == sent /\ o.net = "ok"
             success == answered /\ IsSuccessStatus(o.code)
             next == IF success THEN pubs[p].cidx + 1
                     ELSE OnCreateDealError(pubs[p].cidx, Len(pubs[p].cands))
         IN /\ sugg' = IF success THEN UpdateSuggestionStatus(sugg, id, o.db) ELSE sugg
            /\ posts' = [posts EXCEPT ![id] = @ + (IF success THEN 1 ELSE 0)]
            /\ lost' = [lost EXCEPT ![id] =
                          @ + (IF success /\ o.db # "ok" THEN 1 ELSE 0)]
            /\ pubs' = [pubs EXCEPT
                          ![p].last = [id |-> id, sent |-> sent,
                                       update |-> IF ~success THEN "none"
                                                  ELSE IF o.db = "ok" THEN "committed"
                                                  ELSE "failed"],
                          ![p].cidx = next,
                          ![p].pc = IF next > Len(pubs[p].cands) THEN "idle" ELSE "loop"]
    /\ UNCHANGED <<qpc, cands, cidx, presults, lastPub, pubFailed, pcycle>>
    /\ UNCHANGED <<evars, gvars, mvars, svars, cvars>>

\* The instances start on a table whose suggestions have their vendor feedback
\* already; the feedback does not change while they run.
InitPub2 ==
    /\ InitE0 /\ InitG0 /\ InitM0 /\ InitS0 /\ InitC0
    /\ sugg \in [SuggestionIds -> [vendor_feedback : {"accepted", "pending"},
                                    status : {"generated"}]]
    /\ qpc = "idle"
    /\ cands = <<>>
    /\ cidx = 1
    /\ presults = <<>>
    /\ lastPub = [id |-> 0, sent |-> FALSE, http |-> 0, update |-> "none"]
    /\ posts = [s \in SuggestionIds |-> 0]
    /\ lost = [s \in SuggestionIds |-> 0]
    /\ pubFailed = {}
    /\ pcycle = 0
    /\ pubs = [p \in Publishers |-> IdlePublisher]

NextPub2 ==
    \/ \E p \in Publishers : RaceQuery(p)
    \/ \E p \in Publishers : RaceCreateDeal(p)

SpecPub2 == InitPub2 /\ [][NextPub2]_vars

\* ---------------------------------------------------------------------
\* Properties of the Deal Publisher
\* ---------------------------------------------------------------------

CandIds(rows) == {rows[k].id : k \in DOMAIN rows}

AcceptedUnposted ==
    {s \in DOMAIN sugg :
        sugg[s].vendor_feedback = "accepted" /\ sugg[s].status # "posted"}

\* The step is the candidate query of a new publish cycle.
PubQueryStep == pcycle' = pcycle + 1

\* The step is one create_deal call.
PubLoopStep == qpc = "loop" /\ presults' # presults

\* C5: the candidates of a publish cycle are suggestions that are accepted and
\* not posted when the query runs, all of them when the query succeeds; a
\* deal-creation request is sent only for a candidate, whose row was read as
\* accepted and not posted and whose status is still not posted.
C5_OnlyAcceptedUnpostedPublished ==
    [][/\ PubQueryStep =>
             /\ CandIds(cands') \subseteq AcceptedUnposted
             /\ lastPub'.update = "queried" => CandIds(cands') = AcceptedUnposted
       /\ (PubLoopStep /\ lastPub'.sent) =>
             /\ lastPub'.id = cands[cidx].id
             /\ cands[cidx].vendor_feedback = "accepted"
             /\ cands[cidx].status # "posted"
             /\ sugg[cands[cidx].id].status # "posted"]_vars

C5_Witness ==
    /\ lastPub.sent
    /\ lastPub.http = 201
    /\ \E s \in DOMAIN sugg : sugg[s].vendor_feedback = "pending" /\ posts[s] = 0
    /\ \E s \in DOMAIN sugg : sugg[s].status = "posted" /\ posts[s] = 1

\* C6 (as stated): a status changes only from generated to posted, only in a
\* create_deal call for that suggestion, and only while its vendor_feedback is
\* accepted, also when the feedback changed after the candidate query.
C6_StatusPostedOnlyWhileAccepted ==
    [][\A s \in DOMAIN sugg :
          sugg'[s].status # sugg[s].status =>
             /\ sugg[s].status = "generated"
             /\ sugg'[s].status = "posted"
             /\ PubLoopStep
             /\ cands[cidx].id = s
             /\ sugg[s].vendor_feedback = "accepted"]_vars

\* C7 (as stated): at most one deal-creation request per suggestion is answered
\* with success.
C7_AtMostOneSuccessfulPost == \A s \in DOMAIN posts : posts[s] <= 1

\* C7 (amended): once a status is posted no later cycle selects the suggestion
\* and no request is sent for it; a committed status update leaves the status
\* posted; the successful requests of a suggestion exceed one only by the
\* number of its failed status updates.
C7_NoRequestAfterPosted ==
    /\ [][\A s \in DOMAIN sugg :
             sugg[s].status = "posted" =>
                /\ posts'[s] = posts[s]
                /\ sugg'[s].status = "posted"
                /\ PubQueryStep => s \notin CandIds(cands')
                /\ PubLoopStep => cands[cidx].id # s]_vars
    /\ [](\A s \in DOMAIN posts : posts[s] <= 1 + lost[s])
    /\ [](lastPub.update = "committed" => sugg[lastPub.id].status = "posted")

C7_Witness ==
    /\ pcycle >= 2
    /\ lastPub.update = "queried"
    /\ \E s \in DOMAIN sugg :
          /\ sugg[s].status = "posted"
          /\ sugg[s].vendor_feedback = "accepted"
          /\ posts[s] = 1
          /\ lost[s] = 0

\* C8 (as stated): after any 2xx answer the suggestion's status is posted.
C8_Any2xxMarksPosted ==
    (lastPub.id # 0 /\ lastPub.http \in 200..299) =>
        sugg[lastPub.id].status = "posted"

\* C8 (amended): after a 200 or 201 answer the publisher issues the status
\* update, and the status is posted when that update commits; after any other
\* answer, the other 2xx codes included, no update is issued and the table is
\* unchanged.
C8_Success200Or201MarksPosted ==
    /\ [](lastPub.id # 0 =>
            /\ lastPub.http \in {200, 201} <=> lastPub.update \in {"committed", "failed"}
            /\ lastPub.http \notin {200, 201} <=> lastPub.update = "none"
            /\ lastPub.update = "committed" => sugg[lastPub.id].status = "posted")
    /\ [][(PubLoopStep /\ lastPub'.update # "committed") => sugg' = sugg]_vars

C8_Witness ==
    /\ lastPub.id # 0
    /\ lastPub.http = 201
    /\ lastPub.update = "committed"
    /\ sugg[lastPub.id].status = "posted"

\* C9: a create_deal call that fails (non-success answer, or an exception while
\* building the payload or posting) leaves status and vendor_feedback as they
\* were; when the cycle ends every candidate has been attempted; the next
\* successful query selects every failed suggestion that is still accepted.
C9_FailureLeavesSuggestionForRetry ==
    /\ [][(PubLoopStep /\ presults'[cidx] = "fail") =>
             /\ sugg' = sugg
             /\ cands[cidx].id \in pubFailed']_vars
    /\ [](qpc = "idle" => \A k \in DOMAIN cands : presults[k] # "none")
    /\ [](\A s \in pubFailed : sugg[s].status # "posted")
    /\ [][(PubQueryStep /\ lastPub'.update = "queried") =>
             \A s \in pubFailed :
                sugg[s].vendor_feedback = "accepted" => s \in CandIds(cands')]_vars

C9_Witness ==
    /\ pcycle >= 2
    /\ qpc = "loop"
    /\ cidx = 2
    /\ Len(cands) = 2
    /\ presults[1] = "fail"
    /\ pubFailed = CandIds(cands)
    /\ \A s \in pubFailed :
          sugg[s] = [vendor_feedback |-> "accepted", status |-> "generated"]

\* C19: after a deal-creation request answered with success whose status update
\* failed, the status is still not posted; a status is posted exactly when one
\* more request succeeded than updates failed; the next successful query
\* selects every accepted suggestion whose updates all failed, and a request
\* that succeeds for a suggestion posted before follows only failed updates.
C19_DuplicateAfterLostUpdate ==
    /\ [](lastPub.update = "failed" =>
            /\ lastPub.http \in {200, 201}
            /\ sugg[lastPub.id].status # "posted"
            /\ posts[lastPub.id] = lost[lastPub.id])
    /\ [](\A s \in DOMAIN sugg :
            IF sugg[s].status = "posted" THEN posts[s] = lost[s] + 1
            ELSE posts[s] = lost[s])
    /\ [][(PubQueryStep /\ lastPub'.update = "queried") =>
             \A s \in DOMAIN sugg :
                (lost[s] > 0 /\ posts[s] = lost[s] /\ sugg[s].vendor_feedback = "accepted")
                    => s \in CandIds(cands')]_vars
    /\ [][\A s \in DOMAIN sugg :
             (posts'[s] = posts[s] + 1 /\ posts[s] >= 1) =>
                /\ lost[s] = posts[s]
                /\ PubLoopStep
                /\ cands[cidx].id = s]_vars

C19_Witness ==
    /\ pcycle = 2
    /\ lastPub.sent
    /\ lastPub.update = "committed"
    /\ posts[lastPub.id] = 2
    /\ lost[lastPub.id] = 1
    /\ sugg[lastPub.id].status = "posted"

\* C28: with a single publisher that keeps polling, a suggestion that is
\* accepted from some point on eventually has status posted.
C28_AcceptedEventuallyPosted ==
    \A s \in SuggestionIds :
        <>[](sugg[s].vendor_feedback = "accepted") => <>(sugg[s].status = "posted")

\* The last suggestion was posted with its update committed while the others
\* were posted before it.
C28_Witness ==
    /\ lastPub.id = NumSuggestions
    /\ lastPub.update = "committed"
    /\ qpc = "idle"
    /\ \A s \in SuggestionIds :
          /\ sugg[s].vendor_feedback = "accepted"
          /\ sugg[s].status = "posted"

\* ---------------------------------------------------------------------
\* Properties of two concurrent publishers
\* ---------------------------------------------------------------------

\* The step is the candidate query of instance p, and the query succeeded.
RaceQueried(p) ==
    pubs'[p].cycle = pubs[p].cycle + 1 /\ pubs'[p].last.update = "queried"

\* The step is a create_deal call of instance p.
RaceLoopStep(p) == pubs[p].pc = "loop" /\ pubs'[p].cidx # pubs[p].cidx

\* C20: the candidates of an instance are all the suggestions accepted and not
\* posted in the table when its query runs, whatever the other instance has
\* selected or is posting; an instance calls create_deal for each of its
\* candidates in turn, also for one whose status the other instance has set to
\* posted in the meantime, and a committed update leaves the status posted.
C20_NoClaimBetweenPublishers ==
    /\ [][\A p \in Publishers :
             RaceQueried(p) => CandIds(pubs'[p].cands) = AcceptedUnposted]_vars
    /\ [][\A p \in Publishers :
             RaceLoopStep(p) =>
                LET id == pubs[p].cands[pubs[p].cidx].id
                IN /\ pubs'[p].last.id = id
                   /\ pubs'[p].last.update = "committed" =>
                         /\ posts'[id] = posts[id] + 1
                         /\ sugg'[id].status = "posted"]_vars

\* Both instances selected suggestion s while it was accepted and not posted,
\* both sent a request for it, both were answered with success and both
\* updates committed.
C20_Witness ==
    \E s \in DOMAIN sugg :
        /\ \A p \in Publishers :
              /\ pubs[p].cycle = 1
              /\ s \in CandIds(pubs[p].cands)
              /\ pubs[p].last = [id |-> s, sent |-> TRUE, update |-> "committed"]
        /\ posts[s] = 2
        /\ lost[s] = 0
        /\ sugg[s].status = "posted"

\* =====================================================================
\* Suggestion Generator
\* =====================================================================
\* Money is counted in cents; a computed price, before rounding, in hundredths
\* of a cent.

\* JSON values of the model's answer: a number, a string that is no number, or
\* a missing key.
Absent == [t |-> "absent", v |-> 0]
Num(n) == [t |-> "num", v |-> n]
Text == [t |-> "str", v |-> 0]

Skus == {"A", "B"}
Prices == {10000, 1999}
Items == [sku : Skus, price : Prices]

\* Inventory lists: sku is unique per vendor.
InventoryLists ==
    {l \in UNION {[1..n -> Items] : n \in 0..MaxInventory} :
        \A i, j \in DOMAIN l : l[i].sku = l[j].sku => i = j}

InventorySkus(inv) == {inv[i].sku : i \in DOMAIN inv}

\* The JSON object the prompt asks for, as the model may return it.
ModelJsonObjects ==
    [suggested_product_sku : {"Absent", "", "A", "B", "Z"},
     suggested_discount_type : {"Absent", "fixed_amount", "percentage", "bogus"},
     suggested_discount_value : {Absent, Num(20), Text},
     original_price : {Absent, Num(99900), Text},
     suggested_price : {Absent, Num(8000), Num(99900), Text}]

NoObject ==
    [suggested_product_sku |-> "Absent", suggested_discount_type |-> "Absent",
     suggested_discount_value |-> Absent, original_price |-> Absent,
     suggested_price |-> Absent]

\* A response of model.generate_content: no parts (blocked, with or without a
\* block reason), or text, optionally inside a ```json fence, that is invalid
\* JSON, a JSON array, or a JSON object; or the call itself raises
\* BlockedPromptException (json = "raised").
ModelResponses ==
    {[parts |-> FALSE, block |-> b, fenced |-> FALSE, json |-> "none", obj |-> NoObject] :
        b \in {"none", "SAFETY"}}
    \cup {[parts |-> FALSE, block |-> "SAFETY", fenced |-> FALSE, json |-> "raised",
            obj |-> NoObject]}
    \cup {[parts |-> TRUE, block |-> "none", fenced |-> f, json |-> j, obj |-> NoObject] :
             f \in BOOLEAN, j \in {"invalid", "array"}}
    \cup {[parts |-> TRUE, block |-> "none", fenced |-> f, json |-> "object", obj |-> o] :
             f \in BOOLEAN, o \in ModelJsonObjects}

\* Fields of the EventData model each copy of generate_deal_from_ai receives;
\* the prompt reads event_data.event_name.
EventDataFields(copy) ==
    IF copy = "main"
    THEN {"event_name", "event_type", "date", "start_time", "location_venue",
          "expected_attendance"}
    ELSE {"vendor_id", "location_uuid", "event_trigger_point", "event_details_text",
          "event_location_latitude", "event_location_longitude", "event_timestamp"}

PromptBuilds(copy) == "event_name" \in EventDataFields(copy)

\* re.search of the ```json fence, then json.loads: the text inside the fence,
\* or the whole text, parsed.
JsonLoads(resp) ==
    IF resp.json = "invalid" THEN [ok |-> FALSE, isObject |-> FALSE, obj |-> NoObject]
    ELSE [ok |-> TRUE, isObject |-> resp.json = "object", obj |-> resp.obj]

\* `not selected_sku or selected_sku not in inventory_map`, negated.
SkuInInventory(sku, inv) == sku \notin {"Absent", ""} /\ sku \in InventorySkus(inv)

\* inventory_map[selected_sku]: the last item of the list with that sku.
ActualItem(inv, sku) ==
    LET S == {i \in DOMAIN inv : inv[i].sku = sku}
    IN inv[CHOOSE i \in S : \A j \in S : j <= i]

\* The discounted price in hundredths of a cent; d is the discount value as the
\* model gave it (a percent number, or a currency amount).
CalculatedPriceNoDiscount(price, dtype, d) == price * 100
CalculatedPrice(price, dtype, d) ==
    IF dtype = "fixed_amount" THEN (price - d * 100) * 100
    ELSE IF dtype = "percentage" THEN price * (100 - d)
    ELSE price * 100

\* round(x, 2): hundredths of a cent to cents, ties to even.
Round2(x) ==
    LET q == x \div 100
        r == x % 100
    IN IF r > 50 \/ (r = 50 /\ q % 2 = 1) THEN q + 1 ELSE q

AbsDiff(a, b) == IF a >= b THEN a - b ELSE b - a

GenFail(kind, detail) == [kind |-> kind, detail |-> detail, suggestions |-> <<>>]

\* abs(deal_suggestion.get("suggested_price", float('inf')) - calculated) > 0.01
\* for a number p or a missing key.
PriceMismatch(p, calc) == p.t = "absent" \/ AbsDiff(p.v * 100, calc) > 100

\* The price that is rounded and returned: the calculated one, whatever the
\* model's own figure p is.
UsedPriceTrusting(p, calc) == IF p.t = "num" THEN p.v * 100 ELSE calc
UsedPrice(p, calc) == calc

\* generate_deal_from_ai (main.py and api/services/ai_service.py): every
\* exception inside the try leaves as ValueError.
GenerateDealFromAiUnchecked(copy, key, inv, resp) ==
    IF resp.json # "object" THEN GenFail("ValueError", "json")
    ELSE [kind |-> "ok", detail |-> "",
          suggestions |-> <<[suggested_product_sku |-> resp.obj.suggested_product_sku,
                             suggested_discount_type |-> resp.obj.suggested_discount_type,
                             original_price |-> 0, suggested_price |-> 0,
                             warned |-> FALSE]>>]
GenerateDealFromAi(copy, key, inv, resp) ==
    IF ~key THEN GenFail("ValueError", "AI API Key not configured.")
    ELSE IF ~PromptBuilds(copy) THEN GenFail("ValueError", "Unexpected error: AttributeError")
    ELSE IF resp.json = "raised" THEN GenFail("BlockedPromptException", "SAFETY")
    ELSE IF ~resp.parts
    THEN GenFail("ValueError",
                 IF resp.block = "none" THEN "Unexpected error: empty/blocked: Unknown reason."
                 ELSE "Unexpected error: empty/blocked: SAFETY")
    ELSE LET parsed == JsonLoads(resp)
             o == parsed.obj
             sku == o.suggested_product_sku
         IN IF ~parsed.ok THEN GenFail("ValueError", "AI response not valid JSON")
            ELSE IF ~parsed.isObject THEN GenFail("ValueError", "Unexpected error: AttributeError")
            ELSE IF ~SkuInInventory(sku, inv)
            THEN GenFail("ValueError", "Unexpected error: SKU not in inventory")
            ELSE IF o.suggested_discount_value.t = "str"
            THEN GenFail("ValueError", "Unexpected error: float()")
            ELSE LET item == ActualItem(inv, sku)
                     d == IF o.suggested_discount_value.t = "absent" THEN 0
                          ELSE o.suggested_discount_value.v
                     calc == CalculatedPrice(item.price, o.suggested_discount_type, d)
                 IN IF o.suggested_price.t = "str"
                    THEN GenFail("ValueError", "Unexpected error: TypeError")
                    ELSE [kind |-> "ok", detail |-> "",
                          suggestions |->
                            <<[suggested_product_sku |-> sku,
                               suggested_discount_type |-> o.suggested_discount_type,
                               original_price |-> item.price,
                               suggested_price |-> Round2(UsedPrice(o.suggested_price, calc)),
                               warned |-> PriceMismatch(o.suggested_price, calc)]>>]

\* Lines of the free-text answer parse_ai_response reads.
Lines ==
    {[tag |-> "sku", val |-> "A"], [tag |-> "sku", val |-> "Z"],
     [tag |-> "discount", val |-> "20%"], [tag |-> "discount", val |-> "abc"],
     [tag |-> "reasoning", val |-> "x"], [tag |-> "other", val |-> ""]}

TextResponses == UNION {[1..n -> Lines] : n \in 0..MaxLines}

\* Fields DealSuggestion (api/models/deals.py) has no default for.
DealSuggestionRequired ==
    {"vendor_id", "event_id", "inventory_item_id", "suggested_product_sku",
     "deal_details_prompt", "deal_details_suggestion_text", "suggested_discount_type",
     "suggested_discount_value", "original_price", "suggested_price", "ai_model_name",
     "ai_response_payload"}

\* DealSuggestion(**current_suggestion): a validation error unless every
\* required field is given.
DealSuggestionValid(keys) == DealSuggestionRequired \subseteq keys

KeyOf(tag) ==
    IF tag = "sku" THEN "suggested_product_sku"
    ELSE IF tag = "discount" THEN "suggested_discount"
    ELSE "reasoning"

\* parse_ai_response, line k onwards; st is [keys, sku, out, err]: the keys and
\* the sku of current_suggestion, the suggestions so far, and whether an
\* exception was raised.
RECURSIVE ParseFrom(_, _, _)
ParseFrom(lines, k, st) ==
    IF st.err # "" THEN st
    ELSE IF k > Len(lines)
    THEN IF st.keys = {} THEN st
         ELSE IF DealSuggestionValid(st.keys)
         THEN [st EXCEPT !.out = Append(@, [suggested_product_sku |-> st.sku])]
         ELSE [st EXCEPT !.err = "ValidationError"]
    ELSE LET ln == lines[k]
         IN IF ln.tag = "other" THEN ParseFrom(lines, k + 1, st)
            ELSE IF ln.tag = "sku"
            THEN IF st.keys # {} /\ ~DealSuggestionValid(st.keys)
                 THEN [st EXCEPT !.err = "ValidationError"]
                 ELSE ParseFrom(lines, k + 1,
                        [keys |-> {KeyOf("sku")}, sku |-> ln.val,
                         out |-> IF st.keys = {} THEN st.out
                                 ELSE Append(st.out, [suggested_product_sku |-> st.sku]),
                         err |-> ""])
            ELSE IF ln.tag = "discount" /\ ln.val = "abc"
            THEN [st EXCEPT !.err = "ValueError"]
            ELSE ParseFrom(lines, k + 1, [st EXCEPT !.keys = @ \cup {KeyOf(ln.tag)}])

ParseAiResponse(lines, inv) ==
    LET st == ParseFrom(lines, 1, [keys |-> {}, sku |-> "", out |-> <<>>, err |-> ""])
    IN IF st.err # "" THEN GenFail(st.err, "parse_ai_response")
       ELSE [kind |-> "ok", detail |-> "", suggestions |-> st.out]

\* Fields of the DealSuggestionRequest model of api/models/deals.py.
DealSuggestionRequestFields == {"event_data", "inventory_items"}

\* POST /deals/suggest: get_deal_suggestions reads request.event_details and
\* request.inventory_list, calls the model and parses its text; any exception
\* becomes HTTP 500.
SuggestDeals(lines, inv) ==
    IF ~({"event_details", "inventory_list"} \subseteq DealSuggestionRequestFields)
    THEN GenFail("HTTP500", "Failed to get deal suggestions")
    ELSE LET r == ParseAiResponse(lines, inv)
         IN IF r.kind = "ok" THEN r
            ELSE GenFail("HTTP500", "Failed to get deal suggestions")

GeneratePaths == {"main", "ai_service"}
TextPaths == {"parse_ai_response", "suggest_deals"}

\* A request arrives: inventory and configuration, and the answer the model
\* will give.
InitG ==
    /\ gpc = "ready"
    /\ gkey \in BOOLEAN
    /\ inventory \in InventoryLists
    /\ \/ gpath \in GeneratePaths /\ airesp \in ModelResponses
       \/ gpath \in TextPaths /\ airesp \in TextResponses /\ gkey = TRUE
    /\ gresult = [kind |-> "none", detail |-> "", suggestions |-> <<>>]

GenerateDeal ==
    /\ gpc = "ready"
    /\ gpath \in GeneratePaths
    /\ gresult' = GenerateDealFromAi(gpath, gkey, inventory, airesp)
    /\ gpc' = "done"
    /\ UNCHANGED <<gkey, inventory, airesp, gpath>>
    /\ UNCHANGED <<evars, pvars, mvars, svars, cvars>>

ParseResponse ==
    /\ gpc = "ready"
    /\ gpath = "parse_ai_response"
    /\ gresult' = ParseAiResponse(airesp, inventory)
    /\ gpc' = "done"
    /\ UNCHANGED <<gkey, inventory, airesp, gpath>>
    /\ UNCHANGED <<evars, pvars, mvars, svars, cvars>>

SuggestDealsRoute ==
    /\ gpc = "ready"
    /\ gpath = "suggest_deals"
    /\ gresult' = SuggestDeals(airesp, inventory)
    /\ gpc' = "done"
    /\ UNCHANGED <<gkey, inventory, airesp, gpath>>
    /\ UNCHANGED <<evars, pvars, mvars, svars, cvars>>

InitGen == InitE0 /\ InitP0 /\ InitG /\ InitM0 /\ InitS0 /\ InitC0

NextGen ==
    \/ GenerateDeal
    \/ ParseResponse
    \/ SuggestDealsRoute

SpecGen == InitGen /\ [][NextGen]_vars

\* ---------------------------------------------------------------------
\* Properties of the Suggestion Generator
\* ---------------------------------------------------------------------

\* The answer names a SKU that is missing, empty or not in the inventory.
NamesUnknownSku ==
    IF gpath \in GeneratePaths
    THEN airesp.json = "object"
         /\ airesp.obj.suggested_product_sku \notin InventorySkus(inventory)
    ELSE \E k \in DOMAIN airesp :
            airesp[k].tag = "sku" /\ airesp[k].val \notin InventorySkus(inventory)

\* C10: every suggestion a generating path returns has the sku of an item of
\* the inventory supplied with the request, and an answer naming a missing or
\* unknown SKU yields a failure and no suggestion.
C10_SkuFromInventory ==
    gpc = "done" =>
        /\ \A k \in DOMAIN gresult.suggestions :
              gresult.suggestions[k].suggested_product_sku \in InventorySkus(inventory)
        /\ NamesUnknownSku => gresult.kind # "ok" /\ gresult.suggestions = <<>>

C10_Witness ==
    /\ gpc = "done"
    /\ gpath = "main"
    /\ gresult.kind = "ok"
    /\ Len(gresult.suggestions) = 1
    /\ gresult.suggestions[1].suggested_product_sku = "B"
    /\ Len(inventory) = 2

\* The inventory price, in cents, of the item with this sku.
InventoryPrice(inv, sku) == (CHOOSE it \in Range(inv) : it.sku = sku).price

\* C11: a successful generation returns the inventory price of the selected SKU
\* as original_price and, for fixed_amount and percentage discounts, the
\* discounted inventory price rounded to the cent as suggested_price (within
\* half a cent of the exact value), whatever prices the model returned.
C11_PriceIntegrity ==
    (gpc = "done" /\ gpath \in GeneratePaths /\ gresult.kind = "ok") =>
        LET s == gresult.suggestions[1]
            price == InventoryPrice(inventory, s.suggested_product_sku)
            d == airesp.obj.suggested_discount_value.v
            type == airesp.obj.suggested_discount_type
            exact == IF type = "fixed_amount" THEN 100 * (price - 100 * d)
                     ELSE (price * (100 - d))
        IN /\ Len(gresult.suggestions) = 1
           /\ s.suggested_product_sku = airesp.obj.suggested_product_sku
           /\ s.original_price = price
           /\ type \in {"fixed_amount", "percentage"} =>
                 AbsDiff(100 * s.suggested_price, exact) <= 50

\* Inventory price 100, percentage 20, model prices 999: 100 and 80.00.
C11_Witness ==
    /\ gpc = "done"
    /\ gpath = "main"
    /\ inventory = <<[sku |-> "A", price |-> 10000]>>
    /\ airesp.json = "object"
    /\ airesp.obj.suggested_discount_type = "percentage"
    /\ airesp.obj.suggested_discount_value = Num(20)
    /\ airesp.obj.original_price = Num(99900)
    /\ airesp.obj.suggested_price = Num(99900)
    /\ gresult.kind = "ok"
    /\ gresult.suggestions[1].original_price = 10000
    /\ gresult.suggestions[1].suggested_price = 8000

\* The price figures a model answer may carry.
PriceFigures == {Absent, Num(8000), Num(99900), Text}

\* The same answer with other values of original_price and suggested_price.
WithPrices(resp, p, q) ==
    [resp EXCEPT !.obj.original_price = p, !.obj.suggested_price = q]

\* What a run ends in: failure, or success with these prices.
Outcome(r) ==
    [ok |-> r.kind = "ok",
     prices |-> [k \in DOMAIN r.suggestions |->
                   <<r.suggestions[k].original_price, r.suggestions[k].suggested_price>>]]

\* C12 (as stated): a run's outcome is the outcome of every run with the same
\* key, inventory and model answer but for the values of original_price and
\* suggested_price, missing and non-numeric values included.
C12_OutcomeIndependentOfModelPrices ==
    (gpc = "done" /\ gpath \in GeneratePaths /\ airesp.json = "object") =>
        \A p, q \in PriceFigures :
            Outcome(GenerateDealFromAi(gpath, gkey, inventory, WithPrices(airesp, p, q)))
                = Outcome(gresult)

\* C24: every suggestion a generating call returns has a discount type of
\* fixed_amount or percentage; an answer with another or no discount type yields
\* no suggestion.
C24_DiscountTypeIsOneOfTwo ==
    (gpc = "done" /\ gpath \in GeneratePaths) =>
        \A k \in DOMAIN gresult.suggestions :
            gresult.suggestions[k].suggested_discount_type \in {"fixed_amount", "percentage"}

\* A call on this path with a configured key gets as far as the model's answer.
ReachesModel == gpath \in GeneratePaths /\ gkey /\ PromptBuilds(gpath)

\* The answer has content that fails validation: invalid JSON, or an object
\* whose SKU is missing or not in the inventory.
FailsValidation(resp) ==
    /\ resp.parts
    /\ \/ resp.json = "invalid"
       \/ resp.json = "object" /\ ~SkuInInventory(resp.obj.suggested_product_sku, inventory)

\* C25: an answer without content fails with a kind of its own, carrying the
\* block reason when there is one; invalid JSON and an unknown SKU fail with
\* another kind, so the caller can tell the two apart; no failure returns a
\* suggestion.
C25_FailuresAreTyped ==
    (gpc = "done" /\ ReachesModel) =>
        /\ gresult.kind # "ok" => gresult.suggestions = <<>>
        /\ (~airesp.parts /\ airesp.json = "none") =>
              /\ gresult.kind # "ok"
              /\ \A r \in ModelResponses :
                    FailsValidation(r) =>
                        GenerateDealFromAi(gpath, gkey, inventory, r).kind # gresult.kind

\* The model's suggested_price is a number that differs from the calculated
\* price by more than 0.01, or is missing, in an answer that is otherwise valid.
MismatchOnly ==
    /\ ReachesModel
    /\ airesp.json = "object"
    /\ SkuInInventory(airesp.obj.suggested_product_sku, inventory)
    /\ airesp.obj.suggested_discount_value.t # "str"
    /\ airesp.obj.suggested_price.t # "str"
    /\ LET o == airesp.obj
           d == IF o.suggested_discount_value.t = "absent" THEN 0
                ELSE o.suggested_discount_value.v
       IN PriceMismatch(o.suggested_price,
                        CalculatedPrice(InventoryPrice(inventory, o.suggested_product_sku),
                                        o.suggested_discount_type, d))

\* C26 (as stated): a price mismatch beyond the tolerance is a failure of the
\* generator.
C26_MismatchIsFailure ==
    (gpc = "done" /\ MismatchOnly) => gresult.kind # "ok"

\* C26 (amended): a price mismatch beyond the tolerance is no failure: the call
\* returns one suggestion, flagged by the warning, whose original_price is the
\* inventory price and whose suggested_price is the calculated price rounded to
\* the cent, not the model's figure.
C26_MismatchWarnsComputedWins ==
    (gpc = "done" /\ MismatchOnly) =>
        LET o == airesp.obj
            price == InventoryPrice(inventory, o.suggested_product_sku)
            d == IF o.suggested_discount_value.t = "absent" THEN 0
                 ELSE o.suggested_discount_value.v
            exact == IF o.suggested_discount_type = "fixed_amount" THEN 100 * (price - 100 * d)
                     ELSE IF o.suggested_discount_type = "percentage" THEN price * (100 - d)
                     ELSE 100 * price
        IN /\ gresult.kind = "ok"
           /\ Len(gresult.suggestions) = 1
           /\ gresult.suggestions[1].warned
           /\ gresult.suggestions[1].original_price = price
           /\ AbsDiff(100 * gresult.suggestions[1].suggested_price, exact) <= 50

\* Inventory price 100.00, 20 percent, model's suggested_price 999.00: the
\* suggestion carries 80.00.
C26_Witness ==
    /\ gpc = "done"
    /\ gpath = "main"
    /\ MismatchOnly
    /\ inventory = <<[sku |-> "A", price |-> 10000]>>
    /\ airesp.obj.suggested_discount_type = "percentage"
    /\ airesp.obj.suggested_discount_value = Num(20)
    /\ airesp.obj.suggested_price = Num(99900)
    /\ gresult.kind = "ok"
    /\ gresult.suggestions[1].suggested_price = 8000

\* =====================================================================
\* Geo-Matcher
\* =====================================================================
\* A coordinate of a candidate is a number, a non-numeric string, null, or a
\* missing key. In nearest mode numbers are degrees, multiples of 60, for which
\* the terms of the Haversine formula are rational; in exact mode they are
\* offsets from a base point in units of 0.5e-6 degree.

MaxCandidates == 3

Null == [t |-> "null", v |-> 0]

NearestCandidates ==
    [latitude : {Num(0), Num(60), Text, Null, Absent},
     longitude : {Num(0), Num(60), Null}]

ExactCandidates ==
    [latitude : {Num(0), Num(1), Num(2), Num(3), Text, Null, Absent},
     longitude : {Num(0), Num(2)}]

\* 4 * sin^2(d / 2) for d a multiple of 60 degrees.
Sin2Half4(d) ==
    LET x == AbsDiff(d, 0) % 360
    IN CASE x = 0 -> 0
         [] x \in {60, 300} -> 1
         [] x \in {120, 240} -> 3
         [] x = 180 -> 4

\* 2 * cos(lat) for lat a multiple of 60 degrees.
Cos2(lat) ==
    LET x == AbsDiff(lat, 0) % 360
    IN CASE x = 0 -> 2
         [] x \in {60, 300} -> 1
         [] x \in {120, 240} -> -1
         [] x = 180 -> -2

\* calculate_distance: the Haversine term a = sin^2(dlat/2) +
\* cos(lat1) cos(lat2) sin^2(dlon/2), in sixteenths; the distance
\* 2 R asin(sqrt(a)) grows with a.
CalculateDistance(lat1, lon1, lat2, lon2) ==
    4 * Sin2Half4(lat2 - lat1) + Cos2(lat1) * Cos2(lat2) * Sin2Half4(lon2 - lon1)

\* float(activity[key]): KeyError for a missing key, ValueError for a
\* non-numeric string, TypeError for null.
FloatError(c) ==
    CASE c.t = "num" -> ""
      [] c.t = "absent" -> "KeyError"
      [] c.t = "str" -> "ValueError"
      [] c.t = "null" -> "TypeError"

\* The exception, if any, of parsing latitude and then longitude.
ParseError(cand) ==
    IF FloatError(cand.latitude) # "" THEN FloatError(cand.latitude)
    ELSE FloatError(cand.longitude)

\* find_closest_activity from candidate k on; best is the position of
\* closest_activity (0 for None) and min is min_distance.
RECURSIVE ClosestFrom(_, _, _, _, _)
ClosestFrom(vendor, acts, k, best, min) ==
    IF k > Len(acts) THEN [err |-> "", found |-> IF best = 0 THEN <<>> ELSE <<best>>]
    ELSE LET e == ParseError(acts[k])
         IN IF e \in {"ValueError", "KeyError"} THEN ClosestFrom(vendor, acts, k + 1, best, min)
            ELSE IF e # "" THEN [err |-> e, found |-> <<>>]
            ELSE LET d == CalculateDistance(vendor.latitude.v, vendor.longitude.v,
                                            acts[k].latitude.v, acts[k].longitude.v)
                 IN IF best = 0 \/ d < min
                    THEN ClosestFrom(vendor, acts, k + 1, k, d)
                    ELSE ClosestFrom(vendor, acts, k + 1, best, min)

FindClosestActivity(vendor, acts) == ClosestFrom(vendor, acts, 1, 0, 0)

\* Decimal(str(event[key])): KeyError for a missing key, decimal.InvalidOperation
\* for anything that is no number.
DecimalError(c) ==
    CASE c.t = "num" -> ""
      [] c.t = "absent" -> "KeyError"
      [] c.t \in {"str", "null"} -> "InvalidOperation"

\* tolerance = Decimal('0.000001'), in units of 0.5e-6 degree.
Tolerance == 2

\* abs(a - b) < tolerance
WithinToleranceInclusive(a, b) == AbsDiff(a, b) <= Tolerance
WithinTolerance(a, b) == AbsDiff(a, b) < Tolerance

\* The loop of find_matching_events from event k on; its except clause names
\* ValueError and TypeError, which neither conversion raises.
RECURSIVE MatchFrom(_, _, _)
MatchFrom(vendor, evs, k) ==
    IF k > Len(evs) THEN [err |-> "", found |-> <<>>]
    ELSE LET e == IF DecimalError(evs[k].latitude) # "" THEN DecimalError(evs[k].latitude)
                  ELSE DecimalError(evs[k].longitude)
         IN IF e # "" THEN [err |-> e, found |-> <<>>]
            ELSE IF /\ WithinTolerance(evs[k].latitude.v, vendor.latitude.v)
                    /\ WithinTolerance(evs[k].longitude.v, vendor.longitude.v)
            THEN [err |-> "", found |-> <<k>>]
            ELSE MatchFrom(vendor, evs, k + 1)

\* find_matching_events up to the insert: no match for a vendor without
\* coordinates.
FindMatchingEvents(vendor, evs) ==
    IF vendor.latitude.t = "null" \/ vendor.longitude.t = "null"
    THEN [err |-> "", found |-> <<>>]
    ELSE MatchFrom(vendor, evs, 1)

\* The inputs of one matching call; the activity_id of a candidate is its
\* position in the list.
InitM ==
    /\ mpc = "ready"
    /\ \/ /\ mmode = "nearest"
          /\ mvendor \in [latitude : {Num(0), Num(60)}, longitude : {Num(0)}]
          /\ mcands \in UNION {[1..n -> NearestCandidates] : n \in 0..MaxCandidates}
       \/ /\ mmode = "exact"
          /\ mvendor \in [latitude : {Num(1), Null}, longitude : {Num(1)}]
          /\ mcands \in UNION {[1..n -> ExactCandidates] : n \in 0..MaxCandidates}
    /\ mresult = [err |-> "", found |-> <<>>]

\* process_vendor after the fetches: find_closest_activity, then store_event
\* for the activity found; an exception is caught and nothing is stored.
ProcessVendor ==
    /\ mpc = "ready"
    /\ mmode = "nearest"
    /\ mpc' = "done"
    /\ mresult' = FindClosestActivity(mvendor, mcands)
    /\ IF mresult'.found = <<>>
       THEN UNCHANGED <<events, lastWrite>>
       ELSE \E conn \in {"ok", "none"}, fields \in {"ok", "missing"}, ins \in {"ok", "raise"} :
               LET a == mresult'.found[1]
                   later == IF fields = "ok" /\ ins = "ok" THEN "ok" ELSE "raise"
                   branch == WriterBranch(events, a, conn, later)
               IN /\ events' = StoreEventTable(events, a, conn, fields, "ok", ins)
                  /\ lastWrite' = [writer |-> "store_event", activity_id |-> a,
                                    existed |-> EventExists(events, a),
                                    branch |-> branch, ret |-> StoreEventReturn(branch)]
    /\ UNCHANGED <<variant, ppc, batch, idx, outcomes, last, lastFailed, cycle>>
    /\ UNCHANGED <<mmode, mvendor, mcands>>
    /\ UNCHANGED <<pvars, gvars, svars, cvars>>

\* find_matching_events: on the first match insert_event_into_hackathon_db is
\* called, its result is not looked at, and the match is returned.
MatchVendorEvents ==
    /\ mpc = "ready"
    /\ mmode = "exact"
    /\ mpc' = "done"
    /\ mresult' = FindMatchingEvents(mvendor, mcands)
    /\ IF mresult'.found = <<>>
       THEN UNCHANGED <<events, lastWrite>>
       ELSE \E conn \in {"ok", "none"}, ins \in {"ok", "raise"} :
               LET a == mresult'.found[1]
                   branch == WriterBranch(events, a, conn, ins)
               IN /\ events' = InsertEventTable(events, a, conn, ins)
                  /\ lastWrite' = [writer |-> "insert_event_into_hackathon_db",
                                    activity_id |-> a,
                                    existed |-> EventExists(events, a),
                                    branch |-> branch, ret |-> InsertEventReturn(branch)]
    /\ UNCHANGED <<variant, ppc, batch, idx, outcomes, last, lastFailed, cycle>>
    /\ UNCHANGED <<mmode, mvendor, mcands>>
    /\ UNCHANGED <<pvars, gvars, svars, cvars>>

InitGeo == InitE0 /\ InitP0 /\ InitG0 /\ InitM /\ InitS0 /\ InitC0

NextGeo ==
    \/ ProcessVendor
    \/ MatchVendorEvents

SpecGeo == InitGeo /\ [][NextGeo]_vars

\* ---------------------------------------------------------------------
\* Properties of the Geo-Matcher
\* ---------------------------------------------------------------------

\* Both coordinates of the candidate are numbers.
Parsable(cand) == cand.latitude.t = "num" /\ cand.longitude.t = "num"

DistanceTo(k) ==
    CalculateDistance(mvendor.latitude.v, mvendor.longitude.v,
                      mcands[k].latitude.v, mcands[k].longitude.v)

\* C15 (as stated): nearest returns the first candidate of minimum distance
\* among the candidates with parsable coordinates, and none when there is no
\* such candidate.
C15_NearestIsFirstMinimum ==
    (mpc = "done" /\ mmode = "nearest") =>
        LET P == {k \in DOMAIN mcands : Parsable(mcands[k])}
        IN /\ mresult.err = ""
           /\ P = {} => mresult.found = <<>>
           /\ P # {} =>
                 /\ Len(mresult.found) = 1
                 /\ mresult.found[1] \in P
                 /\ \A k \in P :
                       \/ DistanceTo(mresult.found[1]) < DistanceTo(k)
                       \/ DistanceTo(mresult.found[1]) = DistanceTo(k)
                          /\ mresult.found[1] <= k

\* Position k is reached by the loop with every earlier candidate well formed
\* and none of them matching.
Strictly(k) ==
    /\ AbsDiff(mcands[k].latitude.v, mvendor.latitude.v) < Tolerance
    /\ AbsDiff(mcands[k].longitude.v, mvendor.longitude.v) < Tolerance

FirstMatch(k) ==
    /\ \A j \in 1..k : Parsable(mcands[j])
    /\ Strictly(k)
    /\ \A j \in 1..(k - 1) : ~Strictly(j)

FirstValidMatch(k) ==
    /\ Parsable(mcands[k])
    /\ Strictly(k)
    /\ \A j \in 1..(k - 1) : Parsable(mcands[j]) => ~Strictly(j)

\* C23: in both modes a candidate with malformed coordinates (text, missing
\* key, null) is skipped: the call does not fail, nearest returns a candidate
\* of minimum distance among the well-formed ones, and exact returns the first
\* well-formed candidate that matches.
C23_MalformedCandidatesSkipped ==
    (mpc = "done" /\ mvendor.latitude.t = "num" /\ mvendor.longitude.t = "num") =>
        LET P == {k \in DOMAIN mcands : Parsable(mcands[k])}
        IN /\ mresult.err = ""
           /\ mmode = "nearest" =>
                 \A k \in P :
                    /\ Len(mresult.found) = 1
                    /\ mresult.found[1] \in P
                    /\ DistanceTo(mresult.found[1]) <= DistanceTo(k)
           /\ mmode = "exact" =>
                 \A k \in P : FirstValidMatch(k) => mresult.found = <<k>>

\* =====================================================================
\* API servers: configuration, connection pool, endpoints
\* =====================================================================

MainEndpoints == {"/", "/database-stats", "/table-schema", "/suggest-deal/"}
ApiEndpoints == {"/", "/database/stats", "/database/schema", "/deals/suggest"}

\* What an endpoint needs: Depends(get_db_connection), the AI model.
DependsOn(ep) ==
    CASE ep \in {"/database-stats", "/table-schema", "/database/stats", "/database/schema"}
           -> {"db"}
      [] ep = "/suggest-deal/" -> {"ai"}
      [] ep = "/deals/suggest" -> {"db", "ai"}
      [] OTHER -> {}

\* `if not db_pool:`
PoolUnavailableNever(p) == FALSE
PoolUnavailable(p) == p = "none"

\* A step of request handling: status 0 while the request goes on, else the
\* response; by is "handler" for an HTTPException of the code and "framework"
\* for the 500 the framework makes of an unhandled exception.
Step(status, by, used, p) == [status |-> status, by |-> by, used |-> used, pool |-> p]

\* get_db_connection of main.py.
GetDbConnectionMain(p, valid, up) ==
    IF PoolUnavailable(p) THEN Step(503, "handler", {}, p)
    ELSE IF p = "none" THEN Step(500, "framework", {"acquire"}, p)
    ELSE IF up THEN Step(0, None, {"acquire"}, p)
    ELSE Step(503, "handler", {"acquire"}, p)

\* get_db_connection of api/dependencies/database.py: creates the pool when
\* there is none.
GetDbConnectionApi(p, valid, up) ==
    IF PoolUnavailable(p)
    THEN IF ~valid THEN Step(500, "framework", {}, p)
         ELSE IF up THEN Step(0, None, {"create_pool", "acquire"}, "created")
         ELSE Step(500, "framework", {"create_pool"}, p)
    ELSE IF p = "none" \/ ~up THEN Step(500, "framework", {"acquire"}, p)
    ELSE Step(0, None, {"acquire"}, p)

\* The endpoints of main.py; q is the fate of the queries or of the generation.
HandleMain(ep, p, valid, up, key, q) ==
    IF ep = "/" THEN Step(200, "handler", {}, p)
    ELSE IF ep = "/suggest-deal/"
    THEN IF ~key THEN Step(500, "handler", {}, p)
         ELSE Step(IF q = "ok" THEN 200 ELSE 400, "handler", {"model"}, p)
    ELSE LET c == GetDbConnectionMain(p, valid, up)
         IN IF c.status # 0 THEN c
            ELSE Step(IF q = "ok" THEN 200 ELSE 500, "handler", c.used, c.pool)

\* The endpoints of the api package; get_deal_suggestions checks no key.
HandleApi(ep, p, valid, up, key, q) ==
    IF ep = "/" THEN Step(200, "handler", {}, p)
    ELSE LET c == GetDbConnectionApi(p, valid, up)
         IN IF c.status # 0 THEN c
            ELSE IF ep = "/deals/suggest"
            THEN IF ~({"event_details", "inventory_list"} \subseteq DealSuggestionRequestFields)
                 THEN Step(500, "handler", c.used, c.pool)
                 ELSE Step(IF q = "ok" THEN 200 ELSE 500, "handler",
                           c.used \cup {"model"}, c.pool)
            ELSE Step(IF q = "ok" THEN 200 ELSE 500, "handler", c.used, c.pool)

\* The dependencies of the endpoint that are missing when the request arrives.
Missing(ep) ==
    {d \in DependsOn(ep) :
        \/ d = "db" /\ (~dbValid \/ pool = "none")
        \/ d = "ai" /\ ~aiKey}

InitS ==
    /\ app \in {"main", "api"}
    /\ dbValid \in BOOLEAN
    /\ dbUp \in BOOLEAN
    /\ aiKey \in BOOLEAN
    /\ spc = "starting"
    /\ pool = "none"
    /\ startupPool = "none"
    /\ reply = NoReply

\* startup_event: no pool with invalid settings; a failed creation is logged.
\* In the api package the handler assigns the db_pool of api/main.py, not the
\* one get_db_connection reads.
Startup ==
    /\ spc = "starting"
    /\ spc' = "running"
    /\ LET made == IF dbValid /\ dbUp THEN "created" ELSE "none"
       IN IF app = "main"
          THEN pool' = made /\ UNCHANGED startupPool
          ELSE startupPool' = made /\ UNCHANGED pool
    /\ UNCHANGED <<app, dbValid, dbUp, aiKey, reply>>
    /\ UNCHANGED <<evars, pvars, gvars, mvars, cvars>>

\* One request, handled to its response.
HandleRequest ==
    /\ spc = "running"
    /\ \E ep \in (IF app = "main" THEN MainEndpoints ELSE ApiEndpoints), q \in {"ok", "raise"} :
         LET r == IF app = "main" THEN HandleMain(ep, pool, dbValid, dbUp, aiKey, q)
                  ELSE HandleApi(ep, pool, dbValid, dbUp, aiKey, q)
         IN /\ reply' = [ep |-> ep, status |-> r.status, by |-> r.by, used |-> r.used,
                         missing |-> Missing(ep)]
            /\ pool' = r.pool
    /\ UNCHANGED <<app, dbValid, dbUp, aiKey, spc, startupPool>>
    /\ UNCHANGED <<evars, pvars, gvars, mvars, cvars>>

\* The database goes down or comes back.
DbAvailability ==
    /\ dbUp' = ~dbUp
    /\ UNCHANGED <<app, dbValid, aiKey, spc, pool, startupPool, reply>>
    /\ UNCHANGED <<evars, pvars, gvars, mvars, cvars>>

InitSrv == InitE0 /\ InitP0 /\ InitG0 /\ InitM0 /\ InitS /\ InitC0

NextSrv ==
    \/ Startup
    \/ HandleRequest
    \/ DbAvailability

SpecSrv == InitSrv /\ [][NextSrv]_vars

\* ---------------------------------------------------------------------
\* Properties of the API servers
\* ---------------------------------------------------------------------

\* C17 (as stated): a request to an endpoint with a missing dependency
\* (database settings invalid or no pool; no AI key) gets an error response,
\* the missing dependency is not used, and the server keeps running.
C17_MissingConfigRejected ==
    (reply.ep # None /\ reply.missing # {}) =>
        /\ reply.status >= 400
        /\ "db" \in reply.missing => reply.used \cap {"create_pool", "acquire"} = {}
        /\ "ai" \in reply.missing => "model" \notin reply.used
        /\ spc = "running"

\* C17 (amended): in main.py a request to an endpoint whose database pool or AI
\* key is missing is rejected by the handler, 503 for the database and 500 for
\* the key, and nothing is used. In the api package invalid database settings
\* end the request with an unhandled exception (a framework 500) before
\* anything is used; with valid settings and no pool the request tries to
\* create the pool and is served when that succeeds; a request to
\* /deals/suggest without an AI key ends in a 500 and no model call. The
\* server keeps running in every case.
C17_MissingConfigHandled ==
    reply.ep # None =>
        /\ spc = "running"
        /\ (app = "main" /\ reply.missing # {}) =>
              /\ reply.by = "handler"
              /\ reply.used = {}
              /\ reply.status = IF "db" \in reply.missing THEN 503 ELSE 500
        /\ (app = "api" /\ "db" \in reply.missing /\ ~dbValid) =>
              /\ reply.status = 500
              /\ reply.by = "framework"
              /\ reply.used = {}
        /\ (app = "api" /\ "db" \in reply.missing /\ dbValid) =>
              /\ "create_pool" \in reply.used
              /\ "acquire" \in reply.used <=> pool = "created"
              /\ pool = "none" => reply.status = 500 /\ reply.by = "framework"
        /\ (app = "api" /\ "ai" \in reply.missing) =>
              /\ reply.status = 500
              /\ "model" \notin reply.used

C17_Witness ==
    /\ app = "main"
    /\ spc = "running"
    /\ ~dbValid
    /\ reply.ep = "/database-stats"
    /\ reply.missing = {"db"}
    /\ reply.status = 503
    /\ reply.used = {}

\* ---------------------------------------------------------------------
\* Creation of the connection pool in the api package
\* ---------------------------------------------------------------------
\* startup_event of api/main.py creates a pool and binds it to the db_pool name
\* of api/main.py; get_db_connection reads and binds the db_pool global of
\* api/dependencies/database.py and is suspended at `await create_pool(...)`,
\* where other requests run. Requests are served once startup has completed.

NumRequests == 3

Requests == 1..NumRequests

\* startup_event: no pool for invalid settings; otherwise create_pool and a
\* test query, and the name is reset to None when either raises.
PoolStartup ==
    /\ spc = "starting"
    /\ spc' = "running"
    /\ \E made \in BOOLEAN, test \in BOOLEAN :
          LET mk == dbValid /\ made
          IN /\ created' = IF mk THEN created + 1 ELSE created
             /\ startupPool' = IF mk /\ test THEN "created" ELSE "none"
    /\ UNCHANGED <<app, dbValid, dbUp, aiKey, pool, reply, reqs>>
    /\ UNCHANGED <<evars, pvars, gvars, mvars, wvars, lvars>>

\* get_db_connection up to its first await: `if not db_pool`, the settings
\* check, and the call of create_pool.
RequestCheck(r) ==
    /\ spc = "running"
    /\ reqs[r] = "new"
    /\ reqs' = [reqs EXCEPT ![r] =
                  IF pool # "none" THEN "acquired"
                  ELSE IF ~dbValid THEN "raised"
                  ELSE "creating"]
    /\ UNCHANGED <<app, dbValid, dbUp, aiKey, spc, pool, startupPool, reply, created>>
    /\ UNCHANGED <<evars, pvars, gvars, mvars, wvars, lvars>>

\* create_pool returns and the result is bound to the global, or it raises.
RequestCreate(r) ==
    /\ reqs[r] = "creating"
    /\ \E made \in BOOLEAN :
          /\ created' = IF made THEN created + 1 ELSE created
          /\ pool' = IF made THEN "created" ELSE pool
          /\ reqs' = [reqs EXCEPT ![r] = IF made THEN "acquired" ELSE "raised"]
    /\ UNCHANGED <<app, dbValid, dbUp, aiKey, spc, startupPool, reply>>
    /\ UNCHANGED <<evars, pvars, gvars, mvars, wvars, lvars>>

InitPool ==
    /\ InitE0 /\ InitP0 /\ InitG0 /\ InitM0 /\ InitW0 /\ InitL0
    /\ app = "api"
    /\ dbValid \in BOOLEAN
    /\ dbUp = TRUE
    /\ aiKey = TRUE
    /\ spc = "starting"
    /\ pool = "none"
    /\ startupPool = "none"
    /\ reply = NoReply
    /\ reqs = [r \in Requests |-> "new"]
    /\ created = 0

NextPool ==
    \/ PoolStartup
    \/ \E r \in Requests : RequestCheck(r)
    \/ \E r \in Requests : RequestCreate(r)

SpecPool == InitPool /\ [][NextPool]_vars

\* C30: the process creates at most one connection pool.
C30_PoolCreatedAtMostOnce == created <= 1

\* =====================================================================
\* Scheduling loops of the agents
\* =====================================================================
\* One agent process runs: its loop starts a cycle, the cycle ends normally or
\* with a failing operation, and the handler that catches the failure decides
\* how the loop goes on.

MaxLoopCycles == 3

Agents ==
    {"event_processing_agent", "agent", "event_sourcing_agent", "scheduler", "deal_creator"}

\* The operations of a cycle that can raise.
Failures(agent) ==
    CASE agent \in {"event_processing_agent", "agent"} ->
            {"connect", "fetch", "event", "close"}
      [] agent = "event_sourcing_agent" -> {"get_vendors", "process_vendor", "store_event"}
      [] agent = "scheduler" -> {"monitor_vendor_locations"}
      [] agent = "deal_creator" -> {"query", "create_deal", "update_status"}

\* Where the exception of a failing operation is caught: "cycle" (a handler
\* inside the cycle's function, which then returns normally), "loop" (the
\* try/except around the call in the while loop) or "nowhere".
HandlerNoLoopCatch(agent, op) == IF op = "close" THEN "nowhere" ELSE "cycle"
Handler(agent, op) ==
    CASE agent \in {"event_processing_agent", "agent"} ->
            IF op = "close" THEN "loop" ELSE "cycle"
      [] agent = "event_sourcing_agent" -> "cycle"
      [] agent = "scheduler" -> "cycle"
      [] agent = "deal_creator" -> "cycle"

\* The loop position after a cycle in which op failed ("none": nothing failed).
AfterCycle(agent, op) ==
    IF op = "none" THEN "sleep"
    ELSE CASE Handler(agent, op) = "cycle" -> "sleep"
           [] Handler(agent, op) = "loop" -> "backoff"
           [] OTHER -> "dead"

\* One poll cycle, from its start to the loop's reaction to its outcome.
RunCycle ==
    /\ lpc = "due"
    /\ Len(lhist) < MaxLoopCycles
    /\ \E op \in {"none"} \cup Failures(lagent) :
          /\ lhist' = Append(lhist, op)
          /\ lpc' = AfterCycle(lagent, op)
    /\ UNCHANGED lagent
    /\ UNCHANGED <<evars, pvars, gvars, mvars, svars, wvars, rvars>>

\* The sleep of the loop returns: the interval, or the 60 s after an error.
Wake ==
    /\ lpc \in {"sleep", "backoff"}
    /\ lpc' = "due"
    /\ UNCHANGED <<lagent, lhist>>
    /\ UNCHANGED <<evars, pvars, gvars, mvars, svars, wvars, rvars>>

InitLoops ==
    /\ InitE0 /\ InitP0 /\ InitG0 /\ InitM0 /\ InitS0 /\ InitW0 /\ InitR0
    /\ lagent \in Agents
    /\ lpc = "due"
    /\ lhist = <<>>

NextLoops == RunCycle \/ Wake

\* The process keeps running and its sleeps return.
SpecLoops ==
    InitLoops /\ [][NextLoops]_vars /\ WF_vars(RunCycle) /\ WF_vars(Wake)

\* C27: in every agent loop no cycle outcome ends the loop, and after a cycle
\* in which an operation failed another cycle is eventually started.
C27_LoopSurvivesFailedCycle ==
    /\ [](lpc # "dead")
    /\ \A n \in 1..(MaxLoopCycles - 1) :
          (Len(lhist) = n /\ lhist[n] # "none") ~> (Len(lhist) = n + 1)

\* The processor's connection close raised in the second cycle, after a failed
\* first cycle, and a third cycle has run.
C27_Witness ==
    /\ lagent = "event_processing_agent"
    /\ Len(lhist) = 3
    /\ lhist[1] = "connect"
    /\ lhist[2] = "close"
    /\ lpc # "dead"

====
